---------------------------- MODULE Spec2Model ----------------------------
(***************************************************************************)
(* DepaTrack: the offline-first synchronisation engine of the properties   *)
(* store (usePropertiesStore), its local cache (StorageService) and its    *)
(* remote collection (FirestoreService).                                   *)
(*                                                                         *)
(* One device runs the store.  A property record is abstracted to the      *)
(* fields the engine reads: id (local storage id / Firestore document id), *)
(* uuid (the sync id), zone (one payload field, also read by the storage   *)
(* import filter) and updatedAt (milliseconds, here a logical clock).      *)
(* Every await of the store is a suspension point: an asynchronous         *)
(* function runs atomically from one await to the next.                    *)
(***************************************************************************)
EXTENDS Integers, Sequences, FiniteSets, TLC

(***************************************************************************)
(* Bounds of the model.                                                    *)
(***************************************************************************)
MaxTime == 2
MaxUuid == 2
MaxId == 3
MaxPasses == 2
MaxLocalOps == 2
MaxOtherOps == 2
MaxSyncs == 2
MaxFnLen == 2

VARIABLES
  now,                      \* the wall clock read by new Date() / Date.now()
  user,                     \* authStore.user (NoUser when signed out)
  online,                   \* isOnline
  storage,                  \* localStorage depatrack_properties_<owner>
  deleted,                  \* localStorage depatrack_deleted_properties_<owner>
  properties,               \* properties.value, the in-memory record list
  remote,                   \* Firestore collection 'properties'
  remoteDeleted,            \* Firestore collection 'deletedProperties'
  pass,                     \* the activations of syncWithFirebase
  deliv,                    \* the activation of the live-subscription callback
  delivPending,             \* a snapshot of the subscribed query waits for delivery
  isSyncing,                \* isSyncing.value
  lastSyncTime,             \* lastSyncTime.value (0 is null)
  unsubscribeFromFirestore, \* the uid of the live query, NoUser when null
  listeners,          \* the number of live onSnapshot listeners of the device
  nextId,                   \* next fresh id (crypto.randomUUID / Firestore auto id)
  nextUuid,                 \* next fresh sync id (crypto.randomUUID)
  used,                     \* how many calls of each kind the run has made
  fn,                       \* inputs and results of the pure engine functions
  error                     \* error.value (NoError is null)

vars == <<now, user, online, storage, deleted, properties, remote, remoteDeleted,
          pass, deliv, delivPending, isSyncing, lastSyncTime,
          unsubscribeFromFirestore, listeners, nextId, nextUuid, used, fn, error>>

(***************************************************************************)
(* Values.                                                                 *)
(***************************************************************************)
NoUser == "null"
NoError == "null"
Guest == "guest"
Users == {"A"}
Owners == Users \cup {Guest}
Zones == {"", "X"}
OtherZones == {"Y"}
Times == 1..MaxTime
Uuids == 1..MaxUuid
\* The uuid field of a record stored before uuids existed: absent, hence falsy.
NoUuid == 0
Ids == 1..MaxId
Passes == 1..MaxPasses

Property(id, uuid, zone, updatedAt) ==
  [id |-> id, uuid |-> uuid, zone |-> zone, updatedAt |-> updatedAt]

PropertyValues == [id : Ids, uuid : Uuids, zone : Zones \cup OtherZones, updatedAt : Times]

DeletedPropertyRecord(uuid, userId, deletedAt) ==
  [uuid |-> uuid, userId |-> userId, deletedAt |-> deletedAt]

Range(s) == {s[i] : i \in DOMAIN s}

UuidsOf(s) == {s[i].uuid : i \in DOMAIN s}

(***************************************************************************)
(* JavaScript Map<string, Property> keyed by uuid: a Map keeps its keys in *)
(* insertion order, and set() on a key already present replaces the value  *)
(* in place.  A map is a sequence of records with pairwise distinct uuids. *)
(***************************************************************************)
MapHas(m, uuid) == \E i \in DOMAIN m : m[i].uuid = uuid

MapGet(m, uuid) == m[CHOOSE i \in DOMAIN m : m[i].uuid = uuid]

\* A map that puts a new key in front of the keys it holds.
MapSetInFront(m, prop) ==
  IF MapHas(m, prop.uuid)
    THEN [i \in DOMAIN m |-> IF m[i].uuid = prop.uuid THEN prop ELSE m[i]]
    ELSE <<prop>> \o m

MapSet(m, prop) ==
  IF MapHas(m, prop.uuid)
    THEN [i \in DOMAIN m |-> IF m[i].uuid = prop.uuid THEN prop ELSE m[i]]
    ELSE Append(m, prop)

RECURSIVE MapFrom(_, _)
MapFrom(m, props) ==
  IF props = <<>> THEN m ELSE MapFrom(MapSet(m, Head(props)), Tail(props))

(***************************************************************************)
(* The reconciliation engine of the store.                                 *)
(***************************************************************************)
\* Mutant of MergeFirebase: a remote copy with an equal updatedAt replaces the
\* local one.
RECURSIVE MergeFirebaseTieToRemote(_, _)
MergeFirebaseTieToRemote(merged, firebaseProps) ==
  IF firebaseProps = <<>> THEN merged
  ELSE LET prop == Head(firebaseProps)
           take == \/ ~MapHas(merged, prop.uuid)
                   \/ prop.updatedAt >= MapGet(merged, prop.uuid).updatedAt
       IN MergeFirebaseTieToRemote(IF take THEN MapSet(merged, prop) ELSE merged,
                                   Tail(firebaseProps))

RECURSIVE MergeFirebase(_, _)
MergeFirebase(merged, firebaseProps) ==
  IF firebaseProps = <<>> THEN merged
  ELSE LET prop == Head(firebaseProps)
           take == \/ ~MapHas(merged, prop.uuid)
                   \/ prop.updatedAt > MapGet(merged, prop.uuid).updatedAt
       IN MergeFirebase(IF take THEN MapSet(merged, prop) ELSE merged,
                        Tail(firebaseProps))

mergeProperties(localProps, firebaseProps) ==
  MergeFirebase(MapFrom(<<>>, localProps), firebaseProps)

\* Mutant of applyFirebaseDeletions: a record updated after the deletion
\* survives it.
applyDeletionsOlderOnly(props, deletedRecords) ==
  LET Keep(prop) == \A d \in deletedRecords :
                      d.uuid = prop.uuid => prop.updatedAt > d.deletedAt
  IN SelectSeq(props, Keep)

applyFirebaseDeletions(props, deletedRecords) ==
  LET deletedUuids == {d.uuid : d \in deletedRecords}
      Keep(prop) == prop.uuid \notin deletedUuids
  IN SelectSeq(props, Keep)

reconcile(localProps, firebaseProps, deletedRecords) ==
  applyFirebaseDeletions(mergeProperties(localProps, firebaseProps), deletedRecords)

RECURSIVE MissingAfter(_, _, _)
MissingAfter(deletedLocal, localBeforeSync, localAfterSync) ==
  IF localBeforeSync = <<>> THEN deletedLocal
  ELSE LET prop == Head(localBeforeSync)
           push == /\ ~MapHas(localAfterSync, prop.uuid)
                   /\ prop.uuid \notin Range(deletedLocal)
       IN MissingAfter(IF push THEN Append(deletedLocal, prop.uuid) ELSE deletedLocal,
                       Tail(localBeforeSync), localAfterSync)

\* A diff that also reports a record whose updatedAt equals that of its
\* counterpart as updated.
identifyLocalChangesTies(localBeforeSync, localAfterSync, localDeletedUuids) ==
  LET localBeforeMap == MapFrom(<<>>, localBeforeSync)
      IsNew(prop) == ~MapHas(localBeforeMap, prop.uuid)
      IsUpdated(prop) == /\ MapHas(localBeforeMap, prop.uuid)
                         /\ prop.updatedAt >= MapGet(localBeforeMap, prop.uuid).updatedAt
  IN [newLocal |-> SelectSeq(localAfterSync, IsNew),
      updatedLocal |-> SelectSeq(localAfterSync, IsUpdated),
      deletedLocal |-> MissingAfter(localDeletedUuids, localBeforeSync, localAfterSync)]

\* A diff whose delete set holds only the records that went missing.
identifyLocalChangesMissingOnly(localBeforeSync, localAfterSync, localDeletedUuids) ==
  LET localBeforeMap == MapFrom(<<>>, localBeforeSync)
      IsNew(prop) == ~MapHas(localBeforeMap, prop.uuid)
      IsUpdated(prop) == /\ MapHas(localBeforeMap, prop.uuid)
                         /\ prop.updatedAt > MapGet(localBeforeMap, prop.uuid).updatedAt
  IN [newLocal |-> SelectSeq(localAfterSync, IsNew),
      updatedLocal |-> SelectSeq(localAfterSync, IsUpdated),
      deletedLocal |-> MissingAfter(<<>>, localBeforeSync, localAfterSync)]

identifyLocalChanges(localBeforeSync, localAfterSync, localDeletedUuids) ==
  LET localBeforeMap == MapFrom(<<>>, localBeforeSync)
      IsNew(prop) == ~MapHas(localBeforeMap, prop.uuid)
      IsUpdated(prop) == /\ MapHas(localBeforeMap, prop.uuid)
                         /\ prop.updatedAt > MapGet(localBeforeMap, prop.uuid).updatedAt
  IN [newLocal |-> SelectSeq(localAfterSync, IsNew),
      updatedLocal |-> SelectSeq(localAfterSync, IsUpdated),
      deletedLocal |-> MissingAfter(localDeletedUuids, localBeforeSync, localAfterSync)]

(***************************************************************************)
(* StorageService: one localStorage key per owner for the record list and  *)
(* one for the pending-tombstone list.  A key is present or absent.        *)
(***************************************************************************)
Absent == [present |-> FALSE, items |-> <<>>]

Stored(items) == [present |-> TRUE, items |-> items]

getCurrentUserId(u) == IF u = NoUser THEN Guest ELSE u

\* getAllProperties folds the guest partition into the owner's partition when
\* the caller is signed in and the guest key exists.
GuestMerges(st, u) == u # NoUser /\ st[Guest].present

Combined(st, u) == MapFrom(<<>>, st[Guest].items \o st[u].items)

getAllProperties(st, u) ==
  IF GuestMerges(st, u) THEN Combined(st, u) ELSE st[getCurrentUserId(u)].items

\* A merge that saves the combined list and leaves the guest key in place.
StorageAfterGetKeepsGuest(st, u) ==
  IF GuestMerges(st, u) THEN [st EXCEPT ![u] = Stored(Combined(st, u))] ELSE st

StorageAfterGet(st, u) ==
  IF GuestMerges(st, u)
    THEN [st EXCEPT ![u] = Stored(Combined(st, u)), ![Guest] = Absent]
    ELSE st

DeletedAfterGet(del, st, u) ==
  IF GuestMerges(st, u) THEN [del EXCEPT ![Guest] = <<>>] ELSE del

saveData(st, u, items) == [st EXCEPT ![getCurrentUserId(u)] = Stored(items)]

\* saveProperty: replace the record with the same id (stamping updatedAt
\* again) or push it.
saveProperty(st, u, property, t) ==
  LET all == getAllProperties(st, u)
      exists == \E i \in DOMAIN all : all[i].id = property.id
      first == CHOOSE i \in DOMAIN all :
                 all[i].id = property.id /\ \A j \in 1..(i - 1) : all[j].id # property.id
      items == IF exists
                 THEN [all EXCEPT ![first] = [property EXCEPT !.updatedAt = t]]
                 ELSE Append(all, property)
  IN saveData(StorageAfterGet(st, u), u, items)

storageDeleteProperty(st, u, id) ==
  LET Other(p) == p.id # id
  IN saveData(StorageAfterGet(st, u), u, SelectSeq(getAllProperties(st, u), Other))

\* importProperties keeps the records with an id, a non-empty zone and a
\* numeric price (ids are never empty and prices are always numbers here).
storageImportProperties(st, u, props) ==
  LET Valid(p) == p.zone # ""
  IN saveData(st, u, SelectSeq(props, Valid))

getDeletedPropertyUuids(del, u) == del[getCurrentUserId(u)]

addDeletedPropertyUuid(del, u, uuid) ==
  IF uuid \in Range(getDeletedPropertyUuids(del, u)) THEN del
  ELSE [del EXCEPT ![getCurrentUserId(u)] = Append(@, uuid)]

clearDeletedPropertyUuids(del, u) == [del EXCEPT ![getCurrentUserId(u)] = <<>>]


(***************************************************************************)
(* FirestoreService, as the store calls it.  A document of 'properties' is *)
(* [id, userId, uuid, zone, updatedAt]; queries return the documents in    *)
(* the order they were added.                                              *)
(***************************************************************************)
Doc(id, userId, prop) ==
  [id |-> id, userId |-> userId, uuid |-> prop.uuid, zone |-> prop.zone,
   updatedAt |-> prop.updatedAt]

mapFirestoreProperty(doc) == Property(doc.id, doc.uuid, doc.zone, doc.updatedAt)

RECURSIVE MapDocs(_)
MapDocs(docs) ==
  IF docs = <<>> THEN <<>>
  ELSE <<mapFirestoreProperty(Head(docs))>> \o MapDocs(Tail(docs))

getUserProperties(rem, userId) ==
  LET Mine(d) == d.userId = userId
  IN MapDocs(SelectSeq(rem, Mine))

getPropertiesModifiedSince(rem, userId, since) ==
  LET Newer(d) == d.userId = userId /\ d.updatedAt > since
  IN MapDocs(SelectSeq(rem, Newer))

getDeletedProperties(remDel, userId) == {d \in remDel : d.userId = userId}

getDeletedPropertiesModifiedSince(remDel, userId, since) ==
  {d \in remDel : d.userId = userId /\ d.deletedAt > since}

\* batchCreateProperties: one new document, with a fresh auto id, per record.
RECURSIVE CreatedDocs(_, _, _)
CreatedDocs(props, userId, firstId) ==
  IF props = <<>> THEN <<>>
  ELSE <<Doc(firstId, userId, Head(props))>>
       \o CreatedDocs(Tail(props), userId, firstId + 1)

batchCreateProperties(rem, userId, props, firstId) ==
  rem \o CreatedDocs(props, userId, firstId)

\* getPropertyByUuid returns the first document of the user with that uuid.
HasDoc(rem, userId, uuid) ==
  \E i \in DOMAIN rem : rem[i].userId = userId /\ rem[i].uuid = uuid

FirstDoc(rem, userId, uuid) ==
  CHOOSE i \in DOMAIN rem :
    /\ rem[i].userId = userId /\ rem[i].uuid = uuid
    /\ \A j \in 1..(i - 1) : ~(rem[j].userId = userId /\ rem[j].uuid = uuid)

\* batchDeleteProperties(propertyUuids, userId): for each uuid whose document
\* is found, queue the document's deletion in the batch and add a deletion
\* record at once; the batch is committed at the end.
DeletedDocIndexes(rem, userId, uuids) ==
  {FirstDoc(rem, userId, uuid) : uuid \in {x \in Range(uuids) : HasDoc(rem, userId, x)}}

batchDeleteProperties(rem, userId, uuids) ==
  LET gone == DeletedDocIndexes(rem, userId, uuids)
      RECURSIVE Keep(_)
      Keep(i) == IF i > Len(rem) THEN <<>>
                 ELSE (IF i \in gone THEN <<>> ELSE <<rem[i]>>) \o Keep(i + 1)
  IN Keep(1)

recordPropertyDeletions(remDel, rem, userId, uuids, t) ==
  remDel \cup {DeletedPropertyRecord(uuid, userId, t) :
                 uuid \in {x \in Range(uuids) : HasDoc(rem, userId, x)}}

(***************************************************************************)
(* Activations of syncWithFirebase.  pc names the await a pass is          *)
(* suspended on; the other fields are its local constants.  A slot whose   *)
(* pass has ended keeps how its promise settled.                           *)
(***************************************************************************)
NoOp == [op |-> "none", id |-> 0, uuid |-> 0]

Op(op, id, uuid) == [op |-> op, id |-> id, uuid |-> uuid]

IdlePass ==
  [pc |-> "idle", userId |-> NoUser, incremental |-> FALSE, since |-> 0,
   localProperties |-> <<>>, localDeletedUuids |-> <<>>,
   firebaseProperties |-> <<>>, firebaseDeletedRecords |-> {},
   finalProperties |-> <<>>,
   newLocal |-> <<>>, updatedLocal |-> <<>>, deletedLocal |-> <<>>,
   trigger |-> NoOp, promise |-> "none", outcome |-> "none"]

InFlight(p) == pass[p].pc # "idle"

FreeSlots == {p \in Passes : ~InFlight(p)}

FirstFree == CHOOSE p \in FreeSlots : \A q \in FreeSlots : p <= q

NoDelivery == [pc |-> "idle", localProperties |-> <<>>, firebaseProperties |-> <<>>,
               userId |-> NoUser]

FnIdle == [pc |-> "idle", localProps |-> <<>>, firebaseProps |-> <<>>,
           deletedRecords |-> {}, merged |-> <<>>, final |-> <<>>,
           localDeletedUuids |-> <<>>, newLocal |-> <<>>, updatedLocal |-> <<>>,
           deletedLocal |-> <<>>]

Init ==
  /\ now = 1
  /\ user = NoUser
  /\ online = TRUE
  /\ storage = [o \in Owners |-> Absent]
  /\ deleted = [o \in Owners |-> <<>>]
  /\ properties = <<>>
  /\ remote = <<>>
  /\ remoteDeleted = {}
  /\ pass = [p \in Passes |-> IdlePass]
  /\ deliv = NoDelivery
  /\ delivPending = FALSE
  /\ isSyncing = FALSE
  /\ lastSyncTime = 0
  /\ unsubscribeFromFirestore = NoUser
  /\ listeners = 0
  /\ nextId = 1
  /\ nextUuid = 1
  /\ used = [local |-> 0, other |-> 0, syncs |-> 0]
  /\ fn = FnIdle
  /\ error = NoError

(***************************************************************************)
(* syncWithFirebase up to its first await: the guard, the snapshot of the  *)
(* local cache and of the pending tombstones, the choice between the       *)
(* incremental and the full pull.  st and del are the local cache as the   *)
(* caller left it; u is authStore.user at the call.                        *)
(***************************************************************************)
SyncRuns(u) == u # NoUser /\ online

StartedPass(st, del, u, trig) ==
  [IdlePass EXCEPT
     !.pc = "pullProperties",
     !.userId = u,
     !.incremental = (lastSyncTime # 0),
     !.since = lastSyncTime,
     !.localProperties = getAllProperties(st, u),
     !.localDeletedUuids = getDeletedPropertyUuids(DeletedAfterGet(del, st, u), u),
     !.trigger = trig,
     !.promise = "pending"]

syncWithFirebase(st, del, u, trig, calls) ==
  IF SyncRuns(u)
    THEN /\ FreeSlots # {}
         /\ used.syncs < MaxSyncs
         /\ pass' = [pass EXCEPT ![FirstFree] = StartedPass(st, del, u, trig)]
         /\ storage' = StorageAfterGet(st, u)
         /\ deleted' = DeletedAfterGet(del, st, u)
         /\ isSyncing' = TRUE
         /\ used' = [used EXCEPT !.syncs = @ + 1, !.local = @ + calls]
    ELSE /\ pass' = pass
         /\ storage' = st
         /\ deleted' = del
         /\ isSyncing' = isSyncing
         /\ used' = [used EXCEPT !.local = @ + calls]

(***************************************************************************)
(* The Mutation API.  Each handler writes the local cache and the          *)
(* in-memory list, then calls syncWithFirebase without awaiting it.        *)
(***************************************************************************)
IndexOfId(props, id) ==
  CHOOSE i \in DOMAIN props :
    props[i].id = id /\ \A j \in 1..(i - 1) : props[j].id # id

HasId(props, id) == \E i \in DOMAIN props : props[i].id = id

\* A createProperty that starts the pass on the cache as it was, before the
\* new record is saved.
createPropertySyncsFirst(zone) ==
  /\ used.local < MaxLocalOps
  /\ nextId <= MaxId
  /\ nextUuid <= MaxUuid
  /\ LET property == Property(nextId, nextUuid, zone, now)
     IN /\ properties' = Append(properties, property)
        /\ syncWithFirebase(storage, deleted, user,
                            Op("create", property.id, property.uuid), 1)
  /\ nextId' = nextId + 1
  /\ nextUuid' = nextUuid + 1
  /\ error' = NoError
  /\ UNCHANGED <<now, user, online, remote, remoteDeleted, deliv, delivPending,
                 lastSyncTime, unsubscribeFromFirestore, listeners, fn>>

createProperty(zone) ==
  /\ used.local < MaxLocalOps
  /\ nextId <= MaxId
  /\ nextUuid <= MaxUuid
  /\ LET property == Property(nextId, nextUuid, zone, now)
     IN /\ properties' = Append(properties, property)
        /\ syncWithFirebase(saveProperty(storage, user, property, now), deleted, user,
                            Op("create", property.id, property.uuid), 1)
  /\ nextId' = nextId + 1
  /\ nextUuid' = nextUuid + 1
  /\ error' = NoError
  /\ UNCHANGED <<now, user, online, remote, remoteDeleted, deliv, delivPending,
                 lastSyncTime, unsubscribeFromFirestore, listeners, fn>>

updateProperty(id, zone) ==
  /\ used.local < MaxLocalOps
  /\ HasId(properties, id)
  /\ LET index == IndexOfId(properties, id)
         existingProperty == properties[index]
         assigns == existingProperty.uuid = NoUuid
         uuid == IF assigns THEN nextUuid ELSE existingProperty.uuid
         updatedProperty == [existingProperty EXCEPT !.uuid = uuid, !.zone = zone,
                                                     !.updatedAt = now]
     IN /\ assigns => nextUuid <= MaxUuid
        /\ nextUuid' = IF assigns THEN nextUuid + 1 ELSE nextUuid
        /\ properties' = [properties EXCEPT ![index] = updatedProperty]
        /\ syncWithFirebase(saveProperty(storage, user, updatedProperty, now),
                            DeletedAfterGet(deleted, storage, user),
                            user, Op("update", id, updatedProperty.uuid), 1)
  /\ error' = NoError
  /\ UNCHANGED <<now, user, online, remote, remoteDeleted, deliv, delivPending,
                 lastSyncTime, unsubscribeFromFirestore, listeners, nextId, fn>>

markCalendarScheduled(id) ==
  /\ used.local < MaxLocalOps
  /\ HasId(properties, id)
  /\ LET index == IndexOfId(properties, id)
         property == properties[index]
         assigns == property.uuid = NoUuid
         uuid == IF assigns THEN nextUuid ELSE property.uuid
         updatedProperty == [property EXCEPT !.uuid = uuid, !.updatedAt = now]
     IN /\ assigns => nextUuid <= MaxUuid
        /\ nextUuid' = IF assigns THEN nextUuid + 1 ELSE nextUuid
        /\ properties' = [properties EXCEPT ![index] = updatedProperty]
        /\ syncWithFirebase(saveProperty(storage, user, updatedProperty, now),
                            DeletedAfterGet(deleted, storage, user),
                            user, Op("mark", id, updatedProperty.uuid), 1)
  /\ error' = NoError
  /\ UNCHANGED <<now, user, online, remote, remoteDeleted, deliv, delivPending,
                 lastSyncTime, unsubscribeFromFirestore, listeners, nextId, fn>>

deleteProperty(id) ==
  /\ used.local < MaxLocalOps
  /\ HasId(properties, id)
  /\ LET property == properties[IndexOfId(properties, id)]
         Other(p) == p.id # id
         st == storageDeleteProperty(storage, user, id)
         del == IF property.uuid # NoUuid
                  THEN addDeletedPropertyUuid(DeletedAfterGet(deleted, storage, user),
                                              user, property.uuid)
                  ELSE DeletedAfterGet(deleted, storage, user)
     IN /\ properties' = SelectSeq(properties, Other)
        /\ syncWithFirebase(st, del, user, Op("delete", id, property.uuid), 1)
  /\ error' = NoError
  /\ UNCHANGED <<now, user, online, remote, remoteDeleted, deliv, delivPending,
                 lastSyncTime, unsubscribeFromFirestore, listeners, nextId, nextUuid, fn>>

(***************************************************************************)
(* The Mutation API when localStorage.setItem throws (quota exceeded).     *)
(* saveData rethrows and the handler's catch block sets error.value and    *)
(* rethrows; saveDeletedPropertyUuids logs the error and returns.          *)
(***************************************************************************)
StorageError == "Failed to save data to local storage"

\* saveProperty and deleteProperty of the service read the cache first: the
\* guest merge of that read has saved its list, or its save has thrown too
\* and the guest keys stay.  Then saveData throws.
SaveThrows ==
  /\ \E merged \in BOOLEAN :
       /\ storage' = IF merged THEN StorageAfterGet(storage, user) ELSE storage
       /\ deleted' = IF merged THEN DeletedAfterGet(deleted, storage, user) ELSE deleted
  /\ error' = StorageError
  /\ used' = [used EXCEPT !.local = @ + 1]

createPropertyFails ==
  /\ used.local < MaxLocalOps
  /\ SaveThrows
  /\ UNCHANGED <<now, user, online, properties, remote, remoteDeleted, pass, deliv,
                 delivPending, isSyncing, lastSyncTime, unsubscribeFromFirestore, listeners,
                 nextId, nextUuid, fn>>

\* The uuid of a record without one is assigned on the in-memory record
\* before the try block.
updatePropertyFails(id) ==
  /\ used.local < MaxLocalOps
  /\ HasId(properties, id)
  /\ LET index == IndexOfId(properties, id)
         assigns == properties[index].uuid = NoUuid
     IN /\ assigns => nextUuid <= MaxUuid
        /\ nextUuid' = IF assigns THEN nextUuid + 1 ELSE nextUuid
        /\ properties' = IF assigns
                           THEN [properties EXCEPT ![index].uuid = nextUuid]
                           ELSE properties
  /\ SaveThrows
  /\ UNCHANGED <<now, user, online, remote, remoteDeleted, pass, deliv, delivPending,
                 isSyncing, lastSyncTime, unsubscribeFromFirestore, listeners, nextId, fn>>

deletePropertyFails(id) ==
  /\ used.local < MaxLocalOps
  /\ HasId(properties, id)
  /\ SaveThrows
  /\ UNCHANGED <<now, user, online, properties, remote, remoteDeleted, pass, deliv,
                 delivPending, isSyncing, lastSyncTime, unsubscribeFromFirestore, listeners,
                 nextId, nextUuid, fn>>

\* deleteProperty when the record list is saved and the write of the
\* pending-tombstone list throws: addDeletedPropertyUuid returns normally.
deletePropertyTombstoneFails(id) ==
  /\ used.local < MaxLocalOps
  /\ HasId(properties, id)
  /\ LET property == properties[IndexOfId(properties, id)]
         Other(p) == p.id # id
         st == storageDeleteProperty(storage, user, id)
         del == DeletedAfterGet(deleted, storage, user)
     IN /\ property.uuid # NoUuid
        /\ property.uuid \notin Range(getDeletedPropertyUuids(del, user))
        /\ properties' = SelectSeq(properties, Other)
        /\ syncWithFirebase(st, del, user, Op("delete", id, property.uuid), 1)
  /\ error' = NoError
  /\ UNCHANGED <<now, user, online, remote, remoteDeleted, deliv, delivPending,
                 lastSyncTime, unsubscribeFromFirestore, listeners, nextId, nextUuid, fn>>

(***************************************************************************)
(* deleteProperty cut short: the page is closed after the first `steps`    *)
(* writes of the handler (1: storageService.deleteProperty, 2: the filter  *)
(* of the in-memory list, 3: addDeletedPropertyUuid).  localStorage keeps  *)
(* what was written; the store, with its passes, is gone and starts again  *)
(* signed out, as constructed.                                             *)
(***************************************************************************)
DeleteSteps == 1..3

deletePropertyCrashes(id, steps) ==
  /\ used.local < MaxLocalOps
  /\ HasId(properties, id)
  /\ LET property == properties[IndexOfId(properties, id)]
         del == DeletedAfterGet(deleted, storage, user)
     IN /\ storage' = storageDeleteProperty(storage, user, id)
        /\ deleted' = IF steps >= 3 /\ property.uuid # NoUuid
                        THEN addDeletedPropertyUuid(del, user, property.uuid)
                        ELSE del
  /\ properties' = <<>>
  /\ user' = NoUser
  /\ pass' = [p \in Passes |-> IdlePass]
  /\ deliv' = NoDelivery
  /\ delivPending' = FALSE
  /\ isSyncing' = FALSE
  /\ lastSyncTime' = 0
  /\ unsubscribeFromFirestore' = NoUser
  /\ listeners' = 0
  /\ error' = NoError
  /\ used' = [used EXCEPT !.local = @ + 1]
  /\ UNCHANGED <<now, online, remote, remoteDeleted, nextId, nextUuid, fn>>

(***************************************************************************)
(* The other triggers of a pass.                                           *)
(***************************************************************************)
\* assignUuidsToExistingProperties, record by record: a record without a uuid
\* gets the next one and a new updatedAt and is saved.
AssignUuid(acc, i, u, t) ==
  LET property == acc.properties[i]
      assigned == [property EXCEPT !.uuid = acc.nextUuid, !.updatedAt = t]
  IN IF property.uuid # NoUuid THEN acc
     ELSE [properties |-> [acc.properties EXCEPT ![i] = assigned],
           storage |-> saveProperty(acc.storage, u, assigned, t),
           nextUuid |-> acc.nextUuid + 1]

RECURSIVE AssignUuidsFrom(_, _, _, _)
AssignUuidsFrom(acc, i, u, t) ==
  IF i > Len(acc.properties) THEN acc
  ELSE AssignUuidsFrom(AssignUuid(acc, i, u, t), i + 1, u, t)

assignUuidsToExistingProperties(props, st, u, uuid, t) ==
  AssignUuidsFrom([properties |-> props, storage |-> st, nextUuid |-> uuid], 1, u, t)

loadProperties ==
  /\ LET assigned == assignUuidsToExistingProperties(getAllProperties(storage, user),
                                                     StorageAfterGet(storage, user),
                                                     user, nextUuid, now)
     IN /\ assigned.nextUuid <= MaxUuid + 1
        /\ properties' = assigned.properties
        /\ nextUuid' = assigned.nextUuid
        /\ syncWithFirebase(assigned.storage, DeletedAfterGet(deleted, storage, user),
                            user, NoOp, 0)
  /\ error' = NoError
  /\ UNCHANGED <<now, user, online, remote, remoteDeleted, deliv, delivPending,
                 lastSyncTime, unsubscribeFromFirestore, listeners, nextId, fn>>

\* importProperties (bulk import, replaces the list): parseCSV hands over
\* records with the id of their ID column and no uuid; every record gets a
\* uuid if it has none and a new updatedAt.  No pass is started.
ImportUuid(props, i, uuid) ==
  IF props[i].uuid # NoUuid THEN props[i].uuid
  ELSE uuid + Cardinality({j \in 1..(i - 1) : props[j].uuid = NoUuid})

importProperties(newProperties) ==
  /\ used.local < MaxLocalOps
  /\ LET missing == Cardinality({i \in DOMAIN newProperties :
                                   newProperties[i].uuid = NoUuid})
         propertiesWithUuids ==
           [i \in DOMAIN newProperties |->
              [newProperties[i] EXCEPT !.uuid = ImportUuid(newProperties, i, nextUuid),
                                       !.updatedAt = now]]
     IN /\ nextUuid + missing - 1 <= MaxUuid
        /\ nextUuid' = nextUuid + missing
        /\ storage' = storageImportProperties(storage, user, propertiesWithUuids)
        /\ properties' = propertiesWithUuids
  /\ used' = [used EXCEPT !.local = @ + 1]
  /\ error' = NoError
  /\ UNCHANGED <<now, user, online, deleted, remote, remoteDeleted, pass, deliv,
                 delivPending, isSyncing, lastSyncTime, unsubscribeFromFirestore, listeners,
                 nextId, fn>>

\* addProperties (bulk append): every record gets a new id, a uuid if it has
\* none and a new updatedAt, and is saved and pushed in turn.  No pass is
\* started.
RECURSIVE SaveAll(_, _, _, _)
SaveAll(st, u, props, t) ==
  IF props = <<>> THEN st
  ELSE SaveAll(saveProperty(st, u, Head(props), t), u, Tail(props), t)

addProperties(newProperties) ==
  /\ used.local < MaxLocalOps
  /\ LET missing == Cardinality({i \in DOMAIN newProperties :
                                   newProperties[i].uuid = NoUuid})
         propertiesWithNewIds ==
           [i \in DOMAIN newProperties |->
              [newProperties[i] EXCEPT !.id = nextId + i - 1,
                                       !.uuid = ImportUuid(newProperties, i, nextUuid),
                                       !.updatedAt = now]]
     IN /\ nextId + Len(newProperties) - 1 <= MaxId
        /\ nextUuid + missing - 1 <= MaxUuid
        /\ nextId' = nextId + Len(newProperties)
        /\ nextUuid' = nextUuid + missing
        /\ storage' = SaveAll(storage, user, propertiesWithNewIds, now)
        /\ deleted' = DeletedAfterGet(deleted, storage, user)
        /\ properties' = properties \o propertiesWithNewIds
  /\ used' = [used EXCEPT !.local = @ + 1]
  /\ error' = NoError
  /\ UNCHANGED <<now, user, online, remote, remoteDeleted, pass, deliv, delivPending,
                 isSyncing, lastSyncTime, unsubscribeFromFirestore, listeners, fn>>

login(u) ==
  /\ user = NoUser
  /\ online
  /\ user' = u
  /\ syncWithFirebase(storage, deleted, u, NoOp, 0)
  /\ UNCHANGED <<now, online, properties, remote, remoteDeleted, deliv, delivPending,
                 lastSyncTime, unsubscribeFromFirestore, listeners, nextId, nextUuid, fn, error>>

\* logout calls cleanup(), which releases the subscription, then clears the user.
logout ==
  /\ user # NoUser
  /\ unsubscribeFromFirestore' = NoUser
  /\ listeners' = IF unsubscribeFromFirestore # NoUser THEN listeners - 1 ELSE listeners
  /\ delivPending' = FALSE
  /\ user' = NoUser
  /\ UNCHANGED <<now, online, storage, deleted, properties, remote, remoteDeleted, pass,
                 deliv, isSyncing, lastSyncTime, nextId, nextUuid, used, fn, error>>

\* The two halves of logout apart.  cleanup() runs first and releases the
\* subscription; the user is cleared when the awaited sign-out reports the
\* auth state change, and a pass can resume in between.
cleanup ==
  /\ user # NoUser
  /\ unsubscribeFromFirestore' = NoUser
  /\ listeners' = IF unsubscribeFromFirestore # NoUser THEN listeners - 1 ELSE listeners
  /\ delivPending' = FALSE
  /\ UNCHANGED <<now, user, online, storage, deleted, properties, remote, remoteDeleted,
                 pass, deliv, isSyncing, lastSyncTime, nextId, nextUuid, used, fn, error>>

signedOut ==
  /\ user # NoUser
  /\ user' = NoUser
  /\ UNCHANGED <<now, online, storage, deleted, properties, remote, remoteDeleted, pass,
                 deliv, delivPending, isSyncing, lastSyncTime, unsubscribeFromFirestore,
                 listeners, nextId, nextUuid, used, fn, error>>

\* UserProfile.handleSync: the manual sync of the profile menu.
handleSync ==
  /\ online
  /\ ~isSyncing
  /\ user # NoUser
  /\ syncWithFirebase(storage, deleted, user, NoOp, 0)
  /\ UNCHANGED <<now, user, online, properties, remote, remoteDeleted, deliv,
                 delivPending, lastSyncTime, unsubscribeFromFirestore, listeners, nextId, nextUuid, fn, error>>

(***************************************************************************)
(* The environment: the clock and the network status.                      *)
(***************************************************************************)
Tick ==
  /\ now < MaxTime
  /\ now' = now + 1
  /\ UNCHANGED <<user, online, storage, deleted, properties, remote, remoteDeleted, pass,
                 deliv, delivPending, isSyncing, lastSyncTime, unsubscribeFromFirestore, listeners,
                 nextId, nextUuid, used, fn, error>>

updateStatus ==
  /\ online' = ~online
  /\ UNCHANGED <<now, user, storage, deleted, properties, remote, remoteDeleted, pass,
                 deliv, delivPending, isSyncing, lastSyncTime, unsubscribeFromFirestore, listeners,
                 nextId, nextUuid, used, fn, error>>


(***************************************************************************)
(* The rest of syncWithFirebase, one action per await that resolves.       *)
(***************************************************************************)
\* subscribeToFirebaseUpdates subscribes unless nobody is signed in or a
\* subscription is held; TRUE when it does.
subscribeToFirebaseUpdatesUnguarded(u, held) ==
  u # NoUser

subscribeToFirebaseUpdates(u, held) ==
  u # NoUser /\ held = NoUser

\* The await a pass reaches next, from the upload step `from` on.
NextStage(pr, from) ==
  IF from <= 1 /\ pr.newLocal # <<>> THEN "batchCreate"
  ELSE IF from <= 2 /\ pr.updatedLocal # <<>> THEN "batchUpdate"
  ELSE IF from <= 3 /\ pr.deletedLocal # <<>> THEN "batchDelete"
  ELSE "done"

\* Steps 5 and 6 of the pass and its finally block; changed says whether this
\* step wrote the subscribed collection.
Complete(p, pr, changed) ==
  LET subscribes == subscribeToFirebaseUpdates(user, unsubscribeFromFirestore)
  IN /\ properties' = pr.finalProperties
     /\ storage' = storageImportProperties(storage, user, pr.finalProperties)
     /\ deleted' = clearDeletedPropertyUuids(deleted, user)
     /\ unsubscribeFromFirestore' = IF subscribes THEN user ELSE unsubscribeFromFirestore
     /\ listeners' = IF subscribes THEN listeners + 1 ELSE listeners
     /\ delivPending' = IF subscribes THEN TRUE
                        ELSE IF unsubscribeFromFirestore # NoUser
                               THEN delivPending \/ changed
                               ELSE FALSE
     /\ lastSyncTime' = now
     /\ isSyncing' = FALSE
     /\ pass' = [pass EXCEPT ![p] = [IdlePass EXCEPT !.promise = "fulfilled",
                                                     !.outcome = "done"]]

Continue(p, pr, from, changed) ==
  IF NextStage(pr, from) = "done"
    THEN Complete(p, pr, changed)
    ELSE /\ pass' = [pass EXCEPT ![p] = [pr EXCEPT !.pc = NextStage(pr, from)]]
         /\ delivPending' = IF unsubscribeFromFirestore # NoUser
                              THEN delivPending \/ changed ELSE FALSE
         /\ UNCHANGED <<properties, storage, deleted, unsubscribeFromFirestore, listeners,
                        lastSyncTime, isSyncing>>

pullProperties(p) ==
  /\ pass[p].pc = "pullProperties"
  /\ LET pr == pass[p]
         firebaseProperties ==
           IF pr.incremental
             THEN getPropertiesModifiedSince(remote, pr.userId, pr.since)
             ELSE getUserProperties(remote, pr.userId)
     IN pass' = [pass EXCEPT ![p] = [pr EXCEPT !.pc = "pullDeleted",
                                               !.firebaseProperties = firebaseProperties,
                                               !.since = lastSyncTime]]
  /\ UNCHANGED <<now, user, online, storage, deleted, properties, remote, remoteDeleted,
                 deliv, delivPending, isSyncing, lastSyncTime, unsubscribeFromFirestore, listeners,
                 nextId, nextUuid, used, fn, error>>

pullDeleted(p) ==
  /\ pass[p].pc = "pullDeleted"
  /\ LET pr == pass[p]
         firebaseDeletedRecords ==
           IF pr.incremental
             THEN getDeletedPropertiesModifiedSince(remoteDeleted, pr.userId, pr.since)
             ELSE getDeletedProperties(remoteDeleted, pr.userId)
         mergedProperties == mergeProperties(pr.localProperties, pr.firebaseProperties)
         finalProperties == applyFirebaseDeletions(mergedProperties, firebaseDeletedRecords)
         changes == identifyLocalChanges(pr.localProperties, finalProperties,
                                         pr.localDeletedUuids)
     IN Continue(p, [pr EXCEPT !.firebaseDeletedRecords = firebaseDeletedRecords,
                               !.finalProperties = finalProperties,
                               !.newLocal = changes.newLocal,
                               !.updatedLocal = changes.updatedLocal,
                               !.deletedLocal = changes.deletedLocal], 1, FALSE)
  /\ UNCHANGED <<now, user, online, remote, remoteDeleted, deliv, nextId, nextUuid, used, fn, error>>

batchCreate(p) ==
  /\ pass[p].pc = "batchCreate"
  /\ nextId + Len(pass[p].newLocal) - 1 <= MaxId
  /\ remote' = batchCreateProperties(remote, pass[p].userId, pass[p].newLocal, nextId)
  /\ nextId' = nextId + Len(pass[p].newLocal)
  /\ Continue(p, pass[p], 2, unsubscribeFromFirestore = pass[p].userId)
  /\ UNCHANGED <<now, user, online, remoteDeleted, deliv, nextUuid, used, fn, error>>

\* The store calls batchUpdateProperties(userId, updatedLocal) and the service
\* declares batchUpdateProperties(properties): the loop runs over the
\* characters of the userId string and looks up a document by the undefined
\* userId and uuid of a character.  No document is updated: either the batch
\* commits empty (this action) or the lookup rejects (remoteFails).
batchUpdate(p) ==
  /\ pass[p].pc = "batchUpdate"
  /\ Continue(p, pass[p], 3, FALSE)
  /\ UNCHANGED <<now, user, online, remote, remoteDeleted, deliv, nextId, nextUuid, used, fn, error>>

batchDelete(p) ==
  /\ pass[p].pc = "batchDelete"
  /\ remote' = batchDeleteProperties(remote, pass[p].userId, pass[p].deletedLocal)
  /\ remoteDeleted' = recordPropertyDeletions(remoteDeleted, remote, pass[p].userId,
                                              pass[p].deletedLocal, now)
  /\ Continue(p, pass[p], 4, /\ unsubscribeFromFirestore = pass[p].userId
                              /\ remote' # remote)
  /\ UNCHANGED <<now, user, online, deliv, nextId, nextUuid, used, fn, error>>

\* A pass whose catch block rethrows: the finally block runs and the promise
\* of the pass rejects.
CaughtAndRethrown(p) ==
  /\ pass' = [pass EXCEPT ![p] = [IdlePass EXCEPT !.promise = "rejected",
                                                  !.outcome = "failed"]]
  /\ isSyncing' = FALSE

\* The catch and finally blocks: the awaited call rejected.
Caught(p) ==
  /\ pass' = [pass EXCEPT ![p] = [IdlePass EXCEPT !.promise = "fulfilled",
                                                  !.outcome = "failed"]]
  /\ isSyncing' = FALSE

\* A catch block that records the moment of the failure as the last sync.
remoteFailsAdvancesWindow(p) ==
  /\ pass[p].pc \in {"pullProperties", "pullDeleted", "batchCreate", "batchUpdate"}
  /\ Caught(p)
  /\ lastSyncTime' = now
  /\ UNCHANGED <<now, user, online, storage, deleted, properties, remote, remoteDeleted,
                 deliv, delivPending, unsubscribeFromFirestore, listeners, nextId, nextUuid, used, fn, error>>

remoteFails(p) ==
  /\ pass[p].pc \in {"pullProperties", "pullDeleted", "batchCreate", "batchUpdate"}
  /\ Caught(p)
  /\ UNCHANGED <<now, user, online, storage, deleted, properties, remote, remoteDeleted,
                 deliv, delivPending, lastSyncTime, unsubscribeFromFirestore, listeners, nextId,
                 nextUuid, used, fn, error>>

\* batchDeleteProperties rejects after it has recorded the deletion of the
\* first n uuids; the batch of document deletions is never committed.
batchDeleteFails(p) ==
  /\ pass[p].pc = "batchDelete"
  /\ \E n \in 0..Len(pass[p].deletedLocal) :
       remoteDeleted' = recordPropertyDeletions(remoteDeleted, remote, pass[p].userId,
                                                SubSeq(pass[p].deletedLocal, 1, n), now)
  /\ Caught(p)
  /\ UNCHANGED <<now, user, online, storage, deleted, properties, remote, deliv,
                 delivPending, lastSyncTime, unsubscribeFromFirestore, listeners, nextId, nextUuid, used, fn, error>>

(***************************************************************************)
(* The live subscription: the callback of subscribeToUserProperties.       *)
(***************************************************************************)
snapshotDelivered ==
  /\ unsubscribeFromFirestore # NoUser
  /\ delivPending
  /\ deliv.pc = "idle"
  /\ user # NoUser
  /\ deliv' = [pc |-> "getDeleted",
               localProperties |-> getAllProperties(storage, user),
               firebaseProperties |-> getUserProperties(remote, unsubscribeFromFirestore),
               userId |-> user]
  /\ storage' = StorageAfterGet(storage, user)
  /\ deleted' = DeletedAfterGet(deleted, storage, user)
  /\ delivPending' = FALSE
  /\ UNCHANGED <<now, user, online, properties, remote, remoteDeleted, pass, isSyncing,
                 lastSyncTime, unsubscribeFromFirestore, listeners, nextId, nextUuid, used, fn, error>>

deliveryApplied ==
  /\ deliv.pc = "getDeleted"
  /\ LET firebaseDeletedRecords == getDeletedProperties(remoteDeleted, deliv.userId)
         merged == mergeProperties(deliv.localProperties, deliv.firebaseProperties)
         final == applyFirebaseDeletions(merged, firebaseDeletedRecords)
     IN /\ properties' = final
        /\ storage' = storageImportProperties(storage, user, final)
  /\ deliv' = NoDelivery
  /\ UNCHANGED <<now, user, online, deleted, remote, remoteDeleted, pass, delivPending,
                 isSyncing, lastSyncTime, unsubscribeFromFirestore, listeners, nextId, nextUuid, used, fn, error>>

deliveryFails ==
  /\ deliv.pc = "getDeleted"
  /\ deliv' = NoDelivery
  /\ UNCHANGED <<now, user, online, storage, deleted, properties, remote, remoteDeleted,
                 pass, delivPending, isSyncing, lastSyncTime, unsubscribeFromFirestore, listeners,
                 nextId, nextUuid, used, fn, error>>

(***************************************************************************)
(* Another device of the same user writes the remote collections through   *)
(* FirestoreService.createProperty / updateProperty / deleteProperty.      *)
(***************************************************************************)
Notified == IF unsubscribeFromFirestore # NoUser THEN TRUE ELSE FALSE

otherCreates(u, zone) ==
  /\ used.other < MaxOtherOps
  /\ used' = [used EXCEPT !.other = @ + 1]
  /\ nextId <= MaxId
  /\ nextUuid <= MaxUuid
  /\ remote' = Append(remote, Doc(nextId, u, Property(nextId, nextUuid, zone, now)))
  /\ nextId' = nextId + 1
  /\ nextUuid' = nextUuid + 1
  /\ delivPending' = Notified
  /\ UNCHANGED <<now, user, online, storage, deleted, properties, remoteDeleted, pass,
                 deliv, isSyncing, lastSyncTime, unsubscribeFromFirestore, listeners, fn, error>>

otherUpdates(i, zone) ==
  /\ used.other < MaxOtherOps
  /\ used' = [used EXCEPT !.other = @ + 1]
  /\ i \in DOMAIN remote
  /\ remote' = [remote EXCEPT ![i] = [@ EXCEPT !.zone = zone, !.updatedAt = now]]
  /\ remote' # remote
  /\ delivPending' = Notified
  /\ UNCHANGED <<now, user, online, storage, deleted, properties, remoteDeleted, pass,
                 deliv, isSyncing, lastSyncTime, unsubscribeFromFirestore, listeners, nextId,
                 nextUuid, fn, error>>

otherDeletes(i) ==
  /\ used.other < MaxOtherOps
  /\ used' = [used EXCEPT !.other = @ + 1]
  /\ i \in DOMAIN remote
  /\ remote' = SubSeq(remote, 1, i - 1) \o SubSeq(remote, i + 1, Len(remote))
  /\ remoteDeleted' = remoteDeleted
                        \cup {DeletedPropertyRecord(remote[i].uuid, remote[i].userId, now)}
  /\ delivPending' = Notified
  /\ UNCHANGED <<now, user, online, storage, deleted, properties, pass, deliv, isSyncing,
                 lastSyncTime, unsubscribeFromFirestore, listeners, nextId, nextUuid, fn, error>>

(***************************************************************************)
(* The pure functions of the engine, applied to arbitrary snapshots: a     *)
(* local snapshot and a remote snapshot, each with pairwise distinct       *)
(* uuids, and a set of deletion records with at most one record per uuid.  *)
(***************************************************************************)
SeqsUpTo(S, n) == UNION {[1..k -> S] : k \in 0..n}

UniqueUuids(s) == \A i, j \in DOMAIN s : s[i].uuid = s[j].uuid => i = j

Ascending(s) == \A i, j \in DOMAIN s : i < j => s[i].uuid < s[j].uuid

FnLocalProps == {Property(uuid, uuid, "X", t) : uuid \in Uuids, t \in Times}

FnFirebaseProps == {Property(MaxUuid + uuid, uuid, "Y", t) : uuid \in Uuids, t \in Times}

FnLocalSnapshots == {s \in SeqsUpTo(FnLocalProps, MaxFnLen) : UniqueUuids(s)}

FnFirebaseSnapshots == {s \in SeqsUpTo(FnFirebaseProps, MaxFnLen) : Ascending(s)}

FnDeletedSets ==
  {D \in SUBSET {DeletedPropertyRecord(uuid, "A", t) : uuid \in Uuids, t \in Times} :
     /\ Cardinality(D) <= MaxFnLen
     /\ \A d, e \in D : d.uuid = e.uuid => d = e}

InitReconcile ==
  /\ now = 1
  /\ user = NoUser
  /\ online = TRUE
  /\ storage = [o \in Owners |-> Absent]
  /\ deleted = [o \in Owners |-> <<>>]
  /\ properties = <<>>
  /\ remote = <<>>
  /\ remoteDeleted = {}
  /\ pass = [p \in Passes |-> IdlePass]
  /\ deliv = NoDelivery
  /\ delivPending = FALSE
  /\ isSyncing = FALSE
  /\ lastSyncTime = 0
  /\ unsubscribeFromFirestore = NoUser
  /\ listeners = 0
  /\ nextId = 1
  /\ nextUuid = 1
  /\ used = [local |-> 0, other |-> 0, syncs |-> 0]
  /\ \E L \in FnLocalSnapshots, R \in FnFirebaseSnapshots, D \in FnDeletedSets :
       fn = [FnIdle EXCEPT !.pc = "input", !.localProps = L, !.firebaseProps = R,
                           !.deletedRecords = D]
  /\ error = NoError

\* Step 2 of syncWithFirebase on the drawn snapshots.
Reconcile ==
  /\ fn.pc = "input"
  /\ fn' = [fn EXCEPT !.pc = "done",
                      !.merged = mergeProperties(fn.localProps, fn.firebaseProps),
                      !.final = applyFirebaseDeletions(
                                  mergeProperties(fn.localProps, fn.firebaseProps),
                                  fn.deletedRecords)]
  /\ UNCHANGED <<now, user, online, storage, deleted, properties, remote, remoteDeleted,
                 pass, deliv, delivPending, isSyncing, lastSyncTime,
                 unsubscribeFromFirestore, listeners, nextId, nextUuid, used, error>>

SpecReconcile == InitReconcile /\ [][Reconcile]_vars

\* The pending-tombstone lists a pass may read: uuids, each at most once.
FnLocalDeletedUuids ==
  {d \in SeqsUpTo(Uuids, MaxFnLen) : \A i, j \in DOMAIN d : d[i] = d[j] => i = j}

\* Step 3 of syncWithFirebase on the result of step 2, for any pending-tombstone
\* list: the diff is computed against the reconciled list.
Diff ==
  /\ fn.pc = "done"
  /\ \E localDeletedUuids \in FnLocalDeletedUuids :
       LET changes == identifyLocalChanges(fn.localProps, fn.final, localDeletedUuids)
       IN fn' = [fn EXCEPT !.pc = "diffed",
                           !.localDeletedUuids = localDeletedUuids,
                           !.newLocal = changes.newLocal,
                           !.updatedLocal = changes.updatedLocal,
                           !.deletedLocal = changes.deletedLocal]
  /\ UNCHANGED <<now, user, online, storage, deleted, properties, remote, remoteDeleted,
                 pass, deliv, delivPending, isSyncing, lastSyncTime,
                 unsubscribeFromFirestore, listeners, nextId, nextUuid, used, error>>

SpecDiff == InitReconcile /\ [][Reconcile \/ Diff]_vars

(***************************************************************************)
(* The device while the network is up: the Mutation API (which does not    *)
(* sync while signed out), the triggers of a pass, the passes, the clock   *)
(* and the other devices of the user.                                      *)
(***************************************************************************)
Next ==
  \/ \E zone \in Zones : createProperty(zone)
  \/ \E id \in Ids, zone \in Zones : updateProperty(id, zone)
  \/ \E id \in Ids : markCalendarScheduled(id)
  \/ \E id \in Ids : deleteProperty(id)
  \/ loadProperties
  \/ \E u \in Users : login(u)
  \/ logout
  \/ handleSync
  \/ Tick
  \/ \E p \in Passes : pullProperties(p)
  \/ \E p \in Passes : pullDeleted(p)
  \/ \E p \in Passes : batchCreate(p)
  \/ \E p \in Passes : batchUpdate(p)
  \/ \E p \in Passes : batchDelete(p)
  \/ \E p \in Passes : remoteFails(p)
  \/ \E p \in Passes : batchDeleteFails(p)
  \/ \E u \in Users, zone \in OtherZones : otherCreates(u, zone)
  \/ \E i \in Ids, zone \in OtherZones : otherUpdates(i, zone)
  \/ \E i \in Ids : otherDeletes(i)

Spec == Init /\ [][Next]_vars

(***************************************************************************)
(* The device with its live subscription: sign-in, create and update, the  *)
(* passes, the deliveries of the subscription and the writes of the other  *)
(* devices.                                                                *)
(***************************************************************************)
NextLive ==
  \/ \E u \in Users : login(u)
  \/ \E zone \in Zones : createProperty(zone)
  \/ \E id \in Ids, zone \in Zones : updateProperty(id, zone)
  \/ Tick
  \/ \E p \in Passes : pullProperties(p)
  \/ \E p \in Passes : pullDeleted(p)
  \/ \E p \in Passes : batchCreate(p)
  \/ \E p \in Passes : batchUpdate(p)
  \/ \E p \in Passes : batchDelete(p)
  \/ \E p \in Passes : remoteFails(p)
  \/ snapshotDelivered
  \/ deliveryApplied
  \/ deliveryFails
  \/ \E u \in Users, zone \in OtherZones : otherCreates(u, zone)
  \/ \E i \in Ids, zone \in OtherZones : otherUpdates(i, zone)
  \/ \E i \in Ids : otherDeletes(i)

SpecLive == Init /\ [][NextLive]_vars


(***************************************************************************)
(* The device that loses its network: it signs in and syncs, edits and     *)
(* deletes records only while the network is down (no mutation starts a    *)
(* pass), and syncs by hand once the network is back, while the other      *)
(* devices of the user write the remote store.                             *)
(***************************************************************************)
NextOffline ==
  \/ \E u \in Users : login(u)
  \/ updateStatus
  \/ ~online /\ \E id \in Ids, zone \in Zones : updateProperty(id, zone)
  \/ ~online /\ \E id \in Ids : deleteProperty(id)
  \/ handleSync
  \/ Tick
  \/ \E p \in Passes : pullProperties(p)
  \/ \E p \in Passes : pullDeleted(p)
  \/ \E p \in Passes : batchCreate(p)
  \/ \E p \in Passes : batchUpdate(p)
  \/ \E p \in Passes : batchDelete(p)
  \/ \E p \in Passes : remoteFails(p)
  \/ \E u \in Users, zone \in OtherZones : otherCreates(u, zone)
  \/ \E i \in Ids, zone \in OtherZones : otherUpdates(i, zone)

SpecOffline == Init /\ [][NextOffline]_vars


(***************************************************************************)
(* The device with a record stored before uuids existed: one partition of  *)
(* the local cache holds a record without a uuid when the store is         *)
(* constructed.  The user loads, signs in, edits, deletes, imports a CSV   *)
(* file and syncs, while the other devices write the remote store.         *)
(***************************************************************************)
LegacyRecord == Property(1, NoUuid, "X", 1)

\* What parseCSV returns for a file of one or two rows: the id of the ID
\* column, a non-empty zone, no uuid.
CsvRecords == {Property(id, NoUuid, "X", t) : id \in Ids, t \in Times}

CsvFiles == {f \in SeqsUpTo(CsvRecords, MaxFnLen) : f # <<>>}

InitLegacy ==
  /\ now = 1
  /\ user = NoUser
  /\ online = TRUE
  /\ \E o \in Owners :
       storage = [q \in Owners |-> IF q = o THEN Stored(<<LegacyRecord>>) ELSE Absent]
  /\ deleted = [o \in Owners |-> <<>>]
  /\ properties = <<>>
  /\ remote = <<>>
  /\ remoteDeleted = {}
  /\ pass = [p \in Passes |-> IdlePass]
  /\ deliv = NoDelivery
  /\ delivPending = FALSE
  /\ isSyncing = FALSE
  /\ lastSyncTime = 0
  /\ unsubscribeFromFirestore = NoUser
  /\ listeners = 0
  /\ nextId = 2
  /\ nextUuid = 1
  /\ used = [local |-> 0, other |-> 0, syncs |-> 0]
  /\ fn = FnIdle
  /\ error = NoError

NextLegacy ==
  \/ loadProperties
  \/ \E u \in Users : login(u)
  \/ \E id \in Ids, zone \in Zones : updateProperty(id, zone)
  \/ \E id \in Ids : markCalendarScheduled(id)
  \/ \E id \in Ids : deleteProperty(id)
  \/ \E f \in CsvFiles : importProperties(f)
  \/ handleSync
  \/ Tick
  \/ \E p \in Passes : pullProperties(p)
  \/ \E p \in Passes : pullDeleted(p)
  \/ \E p \in Passes : batchCreate(p)
  \/ \E p \in Passes : batchUpdate(p)
  \/ \E p \in Passes : batchDelete(p)
  \/ \E p \in Passes : remoteFails(p)
  \/ \E u \in Users, zone \in OtherZones : otherCreates(u, zone)
  \/ \E i \in Ids, zone \in OtherZones : otherUpdates(i, zone)

SpecLegacy == InitLegacy /\ [][NextLegacy]_vars


(***************************************************************************)
(* The device whose localStorage is full: the mutations succeed or their   *)
(* write of the local cache throws, while the passes run and the other     *)
(* devices write the remote store.                                         *)
(***************************************************************************)
NextFailing ==
  \/ \E u \in Users : login(u)
  \/ \E zone \in Zones : createProperty(zone)
  \/ \E id \in Ids, zone \in Zones : updateProperty(id, zone)
  \/ \E id \in Ids : deleteProperty(id)
  \/ createPropertyFails
  \/ \E id \in Ids : updatePropertyFails(id)
  \/ \E id \in Ids : deletePropertyFails(id)
  \/ \E id \in Ids : deletePropertyTombstoneFails(id)
  \/ Tick
  \/ \E p \in Passes : pullProperties(p)
  \/ \E p \in Passes : pullDeleted(p)
  \/ \E p \in Passes : batchCreate(p)
  \/ \E p \in Passes : batchUpdate(p)
  \/ \E p \in Passes : batchDelete(p)
  \/ \E p \in Passes : remoteFails(p)
  \/ \E u \in Users, zone \in OtherZones : otherCreates(u, zone)
  \/ \E i \in Ids, zone \in OtherZones : otherUpdates(i, zone)

SpecFailing == Init /\ [][NextFailing]_vars


(***************************************************************************)
(* The device whose page can be closed in the middle of a deletion: it     *)
(* loads, signs in, creates and deletes records and syncs, while the other *)
(* devices write the remote store.                                         *)
(***************************************************************************)
NextCrash ==
  \/ loadProperties
  \/ \E u \in Users : login(u)
  \/ \E zone \in Zones : createProperty(zone)
  \/ \E id \in Ids : deleteProperty(id)
  \/ \E id \in Ids, steps \in DeleteSteps : deletePropertyCrashes(id, steps)
  \/ Tick
  \/ \E p \in Passes : pullProperties(p)
  \/ \E p \in Passes : pullDeleted(p)
  \/ \E p \in Passes : batchCreate(p)
  \/ \E p \in Passes : batchUpdate(p)
  \/ \E p \in Passes : batchDelete(p)
  \/ \E p \in Passes : remoteFails(p)
  \/ \E u \in Users, zone \in OtherZones : otherCreates(u, zone)
  \/ \E i \in Ids, zone \in OtherZones : otherUpdates(i, zone)

SpecCrash == Init /\ [][NextCrash]_vars


(***************************************************************************)
(* The device that signs in and out: logout in its two halves, the passes  *)
(* that resume around them, the deliveries of the subscription and the     *)
(* writes of the other devices.                                            *)
(***************************************************************************)
NextLogout ==
  \/ \E u \in Users : login(u)
  \/ cleanup
  \/ signedOut
  \/ \E zone \in Zones : createProperty(zone)
  \/ \E id \in Ids : deleteProperty(id)
  \/ handleSync
  \/ Tick
  \/ \E p \in Passes : pullProperties(p)
  \/ \E p \in Passes : pullDeleted(p)
  \/ \E p \in Passes : batchCreate(p)
  \/ \E p \in Passes : batchDelete(p)
  \/ \E p \in Passes : remoteFails(p)
  \/ snapshotDelivered
  \/ deliveryApplied
  \/ \E u \in Users, zone \in OtherZones : otherCreates(u, zone)

SpecLogout == Init /\ [][NextLogout]_vars


(***************************************************************************)
(* The device two users share: one signs in, syncs and signs out, and the  *)
(* other signs in after; the other devices of both write the remote store. *)
(***************************************************************************)
NewOwner == "B"

Accounts == Users \cup {NewOwner}

InitOwners ==
  /\ now = 1
  /\ user = NoUser
  /\ online = TRUE
  /\ storage = [o \in Accounts \cup {Guest} |-> Absent]
  /\ deleted = [o \in Accounts \cup {Guest} |-> <<>>]
  /\ properties = <<>>
  /\ remote = <<>>
  /\ remoteDeleted = {}
  /\ pass = [p \in Passes |-> IdlePass]
  /\ deliv = NoDelivery
  /\ delivPending = FALSE
  /\ isSyncing = FALSE
  /\ lastSyncTime = 0
  /\ unsubscribeFromFirestore = NoUser
  /\ listeners = 0
  /\ nextId = 1
  /\ nextUuid = 1
  /\ used = [local |-> 0, other |-> 0, syncs |-> 0]
  /\ fn = FnIdle
  /\ error = NoError

NextOwners ==
  \/ \E u \in Accounts : login(u)
  \/ logout
  \/ Tick
  \/ \E p \in Passes : pullProperties(p)
  \/ \E p \in Passes : pullDeleted(p)
  \/ \E p \in Passes : batchCreate(p)
  \/ \E p \in Passes : remoteFails(p)
  \/ \E u \in Accounts, zone \in OtherZones : otherCreates(u, zone)

SpecOwners == InitOwners /\ [][NextOwners]_vars


(***************************************************************************)
(* The device whose user appends a file to the local cache, updates,       *)
(* signs in (with the guest merge) and out and goes offline, with the      *)
(* passes and the deliveries of the subscription, while another device     *)
(* writes the remote store.                                                *)
(***************************************************************************)
NextLocal ==
  \/ \E id \in Ids, zone \in Zones : updateProperty(id, zone)
  \/ \E newProperties \in CsvFiles : addProperties(newProperties)
  \/ \E u \in Users : login(u)
  \/ logout
  \/ updateStatus
  \/ Tick
  \/ \E p \in Passes : pullProperties(p)
  \/ \E p \in Passes : pullDeleted(p)
  \/ \E p \in Passes : batchCreate(p)
  \/ snapshotDelivered
  \/ deliveryApplied
  \/ \E u \in Users, zone \in OtherZones : otherCreates(u, zone)
  \/ \E i \in Ids, zone \in OtherZones : otherUpdates(i, zone)

SpecLocal == Init /\ [][NextLocal]_vars


(***************************************************************************)
(* The device that syncs again: passes run one after the other, the local  *)
(* mutations and the writes of the other devices all happen before the     *)
(* first pass completes, and after it only triggers that mutate nothing    *)
(* start a pass.                                                           *)
(***************************************************************************)
Quiet == \A p \in Passes : ~InFlight(p)

NeverSynced == lastSyncTime = 0

NextAgain ==
  \/ Quiet /\ NeverSynced /\ \E zone \in Zones : createProperty(zone)
  \/ Quiet /\ NeverSynced /\ \E id \in Ids, zone \in Zones : updateProperty(id, zone)
  \/ Quiet /\ NeverSynced /\ \E id \in Ids : deleteProperty(id)
  \/ Quiet /\ loadProperties
  \/ Quiet /\ \E u \in Users : login(u)
  \/ Quiet /\ logout
  \/ Quiet /\ handleSync
  \/ Tick
  \/ \E p \in Passes : pullProperties(p)
  \/ \E p \in Passes : pullDeleted(p)
  \/ \E p \in Passes : batchCreate(p)
  \/ \E p \in Passes : batchDelete(p)
  \/ \E p \in Passes : remoteFails(p)
  \/ NeverSynced /\ \E u \in Users, zone \in OtherZones : otherCreates(u, zone)
  \/ NeverSynced /\ \E i \in Ids, zone \in OtherZones : otherUpdates(i, zone)
  \/ NeverSynced /\ \E i \in Ids : otherDeletes(i)

SpecAgain == Init /\ [][NextAgain]_vars


(***************************************************************************)
(* The device that only follows: it signs in and syncs, one pass after the *)
(* other, and mutates nothing itself, while the other devices of the user  *)
(* create, update and delete records in the remote store.                  *)
(***************************************************************************)
NextFollows ==
  \/ Quiet /\ \E u \in Users : login(u)
  \/ Quiet /\ handleSync
  \/ Tick
  \/ \E p \in Passes : pullProperties(p)
  \/ \E p \in Passes : pullDeleted(p)
  \/ \E p \in Passes : batchCreate(p)
  \/ \E p \in Passes : batchUpdate(p)
  \/ \E p \in Passes : batchDelete(p)
  \/ \E p \in Passes : remoteFails(p)
  \/ \E u \in Users, zone \in OtherZones : otherCreates(u, zone)
  \/ \E i \in Ids, zone \in OtherZones : otherUpdates(i, zone)
  \/ \E i \in Ids : otherDeletes(i)

SpecFollows == Init /\ [][NextFollows]_vars


(***************************************************************************)
(* The claims.                                                             *)
(***************************************************************************)

\* C1 (last-write-wins merge): with no deletion record, reconcile returns
\* exactly one record per uuid of the local and the remote snapshot; for a
\* uuid in both it is the remote copy when that one has the strictly greater
\* updatedAt and the local copy otherwise (local newer, or equal timestamps).
C1_LastWriteWins ==
  (fn.pc = "done" /\ fn.deletedRecords = {}) =>
    /\ UuidsOf(fn.final) = UuidsOf(fn.localProps) \cup UuidsOf(fn.firebaseProps)
    /\ UniqueUuids(fn.final)
    /\ \A l \in Range(fn.localProps), r \in Range(fn.firebaseProps) :
         l.uuid = r.uuid =>
           IF r.updatedAt > l.updatedAt THEN r \in Range(fn.final)
                                        ELSE l \in Range(fn.final)

\* C1 witness: a uuid held by both snapshots with equal updatedAt, a second
\* uuid where the remote copy is newer, and the merge has run.
C1_Witness ==
  /\ fn.pc = "done"
  /\ fn.deletedRecords = {}
  /\ \E l \in Range(fn.localProps), r \in Range(fn.firebaseProps) :
       l.uuid = r.uuid /\ l.updatedAt = r.updatedAt /\ l \in Range(fn.final)
  /\ \E l \in Range(fn.localProps), r \in Range(fn.firebaseProps) :
       l.uuid = r.uuid /\ l.updatedAt < r.updatedAt /\ r \in Range(fn.final)

\* C2 (tombstone terminality): no record returned by reconcile has a uuid that
\* a deletion record names, whatever the two timestamps are.
C2_TombstoneTerminal ==
  fn.pc = "done" =>
    \A prop \in Range(fn.final) : \A d \in fn.deletedRecords : prop.uuid # d.uuid

\* C2 witness: a local record updated after the deletion recorded for its
\* uuid is left out of the result.
C2_Witness ==
  /\ fn.pc = "done"
  /\ \E l \in Range(fn.localProps), d \in fn.deletedRecords :
       /\ l.uuid = d.uuid
       /\ l.updatedAt > d.deletedAt
       /\ l.uuid \notin UuidsOf(fn.final)

\* The upload stages of a pass: its diff has been computed and is being pushed.
Uploading(p) == pass[p].pc \in {"batchCreate", "batchUpdate", "batchDelete"}

\* C3 (upload diff): in a pass that is uploading, the create set is exactly
\* the records of the local snapshot taken at the start of the pass whose uuid
\* is absent from the remote snapshot pulled, and the update set is exactly
\* the local records strictly newer than their counterpart in that snapshot.
C3_UploadDiff ==
  \A p \in Passes :
    Uploading(p) =>
      LET pr == pass[p]
          remoteUuids == UuidsOf(pr.firebaseProperties)
      IN /\ Range(pr.newLocal) =
              {l \in Range(pr.localProperties) : l.uuid \notin remoteUuids}
         /\ Range(pr.updatedLocal) =
              {l \in Range(pr.localProperties) :
                 \E r \in Range(pr.firebaseProperties) :
                   r.uuid = l.uuid /\ l.updatedAt > r.updatedAt}

\* C4 (stale local edit is never pushed): in a pass that is uploading, a uuid
\* whose local copy is not newer than the remote copy pulled is in neither the
\* create set nor the update set.
C4_StaleEditNotPushed ==
  \A p \in Passes :
    Uploading(p) =>
      \A l \in Range(pass[p].localProperties) :
        \A r \in Range(pass[p].firebaseProperties) :
          (l.uuid = r.uuid /\ l.updatedAt <= r.updatedAt) =>
            l.uuid \notin UuidsOf(pass[p].newLocal) \cup UuidsOf(pass[p].updatedLocal)

\* C7 (one pass at a time): no two passes of the same owner are in flight
\* together.
C7_SinglePassPerOwner ==
  \A p, q \in Passes :
    (InFlight(p) /\ InFlight(q) /\ pass[p].userId = pass[q].userId) => p = q

\* The step in which pass p ends in its catch block.
Fails(p) == InFlight(p) /\ pass'[p].outcome = "failed"

\* C5 (tombstone durability): when the pass started by the deletion of a
\* record fails, the pending-tombstone list of its owner holds the uuid of
\* that record afterwards.
C5_TombstoneDurable ==
  [][\A p \in Passes :
       (Fails(p) /\ pass[p].trigger.op = "delete") =>
         pass[p].trigger.uuid \in Range(getDeletedPropertyUuids(deleted', pass[p].userId))]_vars

\* A step of pass p between its start and its end that is not its successful
\* completion: an await that resolves or the catch block.
StepsWithoutCompleting(p) ==
  InFlight(p) /\ pass'[p] # pass[p] /\ pass'[p].outcome # "done"

\* The step in which sign-in starts pass p: the first thing the pass does is to
\* read the local cache of the new user.
StartsAtLogin(p) == ~InFlight(p) /\ pass'[p].pc # "idle" /\ user = NoUser /\ user' # NoUser

PendingMutations ==
  {q \in Passes : InFlight(q) /\ pass[q].trigger.op \in {"create", "update", "mark"}}

\* The delivery in progress read the local cache after the mutation of pass q
\* was written, and carries another version of the record of that mutation.
DeliveryConflictsWith(q) ==
  \E l \in Range(pass[q].localProperties) :
    /\ l.uuid = pass[q].trigger.uuid
    /\ l \in Range(deliv.localProperties)
    /\ l \in Range(properties)
    /\ \E r \in Range(deliv.firebaseProperties) : r.uuid = l.uuid /\ r # l

\* C8 (race suppression): a delivery of the live subscription that carries a
\* conflicting version of a record whose local mutation is in flight leaves
\* the in-memory list and the persisted cache as they were.
C8_RaceSuppression ==
  [][(/\ deliv.pc = "getDeleted"
      /\ deliv'.pc = "idle"
      /\ \E q \in PendingMutations : DeliveryConflictsWith(q))
       => UNCHANGED <<properties, storage>>]_vars

\* The step in which a call of the Mutation API starts pass p.
StartsByMutation(p) == ~InFlight(p) /\ pass'[p].trigger.op # "none"

IdsOf(props) == {props[i].id : i \in DOMAIN props}

\* C9 (local write precedes sync): when a create, an update or a delete starts
\* a pass, the in-memory list, the persisted cache and the snapshot the pass
\* read before its first remote call all hold the mutation (the new record,
\* the record as updated now, or the record gone and its uuid queued as a
\* tombstone); and a pass that pulls, pushes or fails without completing
\* leaves the in-memory list and the persisted cache as the call left them.
C9_LocalWritePrecedesSync ==
  [][\A p \in Passes :
       /\ StartsByMutation(p) =>
            LET t == pass'[p].trigger
                owner == pass'[p].userId
                stored == storage'[owner].items
                snapshot == pass'[p].localProperties
            IN /\ pass'[p].pc = "pullProperties"
               /\ t.op = "create" =>
                    \E r \in Range(properties') :
                      /\ r.id = t.id /\ r.uuid = t.uuid /\ r.updatedAt = now
                      /\ r \notin Range(properties)
                      /\ r \in Range(stored)
                      /\ r \in Range(snapshot)
               /\ t.op \in {"update", "mark"} =>
                    \E r \in Range(properties') :
                      /\ r.id = t.id /\ r.uuid = t.uuid /\ r.updatedAt = now
                      /\ r \in Range(stored)
                      /\ r \in Range(snapshot)
               /\ t.op = "delete" =>
                    /\ t.id \in IdsOf(properties)
                    /\ t.id \notin IdsOf(properties') \cup IdsOf(stored) \cup IdsOf(snapshot)
                    /\ t.uuid \in Range(deleted'[owner])
                    /\ t.uuid \in Range(pass'[p].localDeletedUuids)
       /\ StepsWithoutCompleting(p) => UNCHANGED <<properties, storage>>]_vars

\* C9 witness: the pass started by a create is waiting for its first pull and
\* the new record is in the in-memory list and in the persisted cache; an
\* earlier pass has failed.
C9_Witness ==
  \E p, q \in Passes :
    /\ pass[p].pc = "pullProperties"
    /\ pass[p].trigger.op = "create"
    /\ pass[q].outcome = "failed"
    /\ \E r \in Range(properties) :
         /\ r.uuid = pass[p].trigger.uuid
         /\ r \in Range(storage[pass[p].userId].items)

\* C10 (sync failures never reach the caller): the promise of a pass never
\* rejects; the pass that fails settles its promise as fulfilled, resets
\* isSyncing, and leaves what the Mutation API wrote (the in-memory list, the
\* persisted cache, the pending tombstones) as it was.
C10_SyncFailureContained ==
  [][\A p \in Passes :
       /\ pass'[p].promise # "rejected"
       /\ Fails(p) =>
            /\ pass'[p].promise = "fulfilled"
            /\ isSyncing' = FALSE
            /\ UNCHANGED <<properties, storage, deleted>>]_vars

\* C10 witness: the pass of the sign-in and the pass started by a delete
\* have both failed, each promise is fulfilled, and the delete stands: the
\* record is gone from the in-memory list and the persisted cache and its
\* uuid is queued as a tombstone.
C10_Witness ==
  /\ user # NoUser
  /\ \A p \in Passes : pass[p].outcome = "failed" /\ pass[p].promise = "fulfilled"
  /\ lastSyncTime = 0
  /\ deleted[user] # <<>>
  /\ properties = <<>>
  /\ storage[user].present
  /\ storage[user].items = <<>>

\* C11 (round trip): when every local record has a remote counterpart at least
\* as new and no tombstone is pending, the diff computed after reconcile has an
\* empty create set, an empty update set and an empty delete set.
C11_RoundTrip ==
  (/\ fn.pc = "diffed"
   /\ fn.localDeletedUuids = <<>>
   /\ fn.deletedRecords = {}
   /\ \A l \in Range(fn.localProps) :
        \E r \in Range(fn.firebaseProps) : r.uuid = l.uuid /\ r.updatedAt >= l.updatedAt)
    => /\ fn.newLocal = <<>>
       /\ fn.updatedLocal = <<>>
       /\ fn.deletedLocal = <<>>

\* A step of a pass that started after an earlier pass had completed: its
\* start, an await that resolves, its completion or its catch block.
StepsAgain(p) ==
  /\ pass'[p] # pass[p]
  /\ \/ InFlight(p) /\ pass[p].incremental
     \/ ~InFlight(p) /\ pass'[p].incremental

\* C12 (sync is idempotent): a pass that runs after a completed pass, with no
\* local mutation and no write of another device in between, never reaches an
\* upload stage, writes nothing to the remote store, and leaves what a read of
\* the local cache returns, the pending tombstones and, once it has completed,
\* the in-memory list as they were.
C12_SyncIdempotent ==
  [][\A p \in Passes :
       StepsAgain(p) =>
         /\ pass'[p].pc \notin {"batchCreate", "batchUpdate", "batchDelete"}
         /\ UNCHANGED <<remote, remoteDeleted>>
         /\ getAllProperties(storage', user') = getAllProperties(storage, user')
         /\ getDeletedPropertyUuids(DeletedAfterGet(deleted', storage', user'), user')
              = getDeletedPropertyUuids(DeletedAfterGet(deleted, storage, user'), user')
         /\ pass'[p].outcome = "done" =>
              properties' = getAllProperties(storage, user')]_vars

\* C12 witness: a pass that started after an earlier pass had completed has
\* pulled nothing new and is about to reconcile a local cache and a remote
\* store that both hold records.
C12_Witness ==
  \E p \in Passes :
    /\ pass[p].incremental
    /\ pass[p].pc = "pullDeleted"
    /\ pass[p].localProperties # <<>>
    /\ pass[p].firebaseProperties = <<>>
    /\ remote # <<>>
    /\ lastSyncTime < now

\* The step in which pass p has pulled the tombstones and reconciled.
Reconciles(p) == pass[p].pc = "pullDeleted" /\ pass'[p].pc # "pullDeleted" /\ ~Fails(p)

\* The list pass p writes to the local cache when it completes, as known in
\* the state after it has reconciled.
FinalAfter(p) == IF pass'[p].outcome = "done" THEN properties' ELSE pass'[p].finalProperties

\* C13 (deletion reaches other devices): when a pass of a device that still
\* lists a record reconciles after another device has deleted that record in
\* the remote store (the tombstone is there when the pass pulls tombstones),
\* the list the pass writes to the local cache no longer holds the record.
C13_DeletionReachesOthers ==
  [][\A p \in Passes :
       Reconciles(p) =>
         \A d \in remoteDeleted :
           (d.userId = pass[p].userId /\ d.uuid \in UuidsOf(pass[p].localProperties))
             => d.uuid \notin UuidsOf(FinalAfter(p))]_vars

\* The step in which pass p completes: steps 5 and 6 have run.
Completes(p) == InFlight(p) /\ pass'[p].outcome = "done"

\* C14 (local deletion wins): when a pass completes whose snapshot of the
\* pending tombstones lists a record that its pull returned from the remote
\* store, the record is afterwards absent from the in-memory list, from the
\* persisted cache and from the remote store.
C14_LocalDeletionWins ==
  [][\A p \in Passes : Completes(p) =>
       \A uuid \in Range(pass[p].localDeletedUuids) :
         uuid \in UuidsOf(pass[p].firebaseProperties) =>
           /\ uuid \notin UuidsOf(properties')
           /\ uuid \notin UuidsOf(getAllProperties(storage', user'))
           /\ ~HasDoc(remote', pass[p].userId, uuid)]_vars

\* Every record of `before` that has a uuid keeps it in `after`, where the
\* record is the one with the same local id.
UuidKept(before, after) ==
  \A i \in DOMAIN before, j \in DOMAIN after :
    (before[i].uuid # NoUuid /\ after[j].id = before[i].id)
      => after[j].uuid = before[i].uuid

\* C15 (syncId invariant): no step changes the uuid of a record of the
\* in-memory list or of the persisted cache that already has one; every record
\* of a list handed to batchCreateProperties or batchUpdateProperties has a
\* uuid; and after loadProperties every record of the list and of the
\* persisted cache has a uuid.
C15_UuidInvariant ==
  [][/\ UuidKept(properties, properties')
     /\ UuidKept(getAllProperties(storage, user'), getAllProperties(storage', user'))
     /\ \A p \in Passes :
          NoUuid \notin UuidsOf(pass'[p].newLocal) \cup UuidsOf(pass'[p].updatedLocal)
     /\ loadProperties =>
          NoUuid \notin UuidsOf(properties') \cup UuidsOf(getAllProperties(storage', user'))]_vars

\* C16 (guest merge is one-time and deduplicating): whenever the guest
\* partition exists, the read of the cache under a signed-in owner leaves the
\* owner's partition with exactly one record for each uuid of the guest and
\* the owner's partition together, returns that list and removes the guest
\* partition, and a second read changes nothing; the pass started by sign-in
\* performs this read.
C16_GuestMergeOnce ==
  [][\A u \in Users :
       /\ GuestMerges(storage, u) =>
            LET after == StorageAfterGet(storage, u)
            IN /\ UuidsOf(after[u].items)
                    = UuidsOf(storage[Guest].items) \cup UuidsOf(storage[u].items)
               /\ UniqueUuids(after[u].items)
               /\ ~after[Guest].present
               /\ getAllProperties(storage, u) = after[u].items
               /\ StorageAfterGet(after, u) = after
               /\ getAllProperties(after, u) = after[u].items
       /\ \A p \in Passes :
            (StartsAtLogin(p) /\ user' = u) =>
              /\ storage' = StorageAfterGet(storage, u)
              /\ ~storage'[Guest].present
              /\ pass'[p].localProperties = storage'[u].items]_vars

\* A pass started by sign-in, the only pass so far, has read a non-empty
\* list that only the guest can have written and the guest partition is gone.
C16_Witness ==
  \E p \in Passes :
    /\ pass[p].pc = "pullProperties"
    /\ pass[p].trigger = NoOp
    /\ used.syncs = 1
    /\ used.local >= 1
    /\ used.other = 0
    /\ pass[p].localProperties # <<>>
    /\ storage[pass[p].userId].items = pass[p].localProperties
    /\ ~storage[Guest].present

\* Steps 1 to 3 of syncWithFirebase for the snapshot of pass record pr, on the
\* remote store as it is now: what the pass pulls, keeps and would push.
PassOutcome(pr, incremental) ==
  LET firebaseProperties ==
        IF incremental THEN getPropertiesModifiedSince(remote, pr.userId, pr.since)
        ELSE getUserProperties(remote, pr.userId)
      firebaseDeletedRecords ==
        IF incremental
          THEN getDeletedPropertiesModifiedSince(remoteDeleted, pr.userId, pr.since)
          ELSE getDeletedProperties(remoteDeleted, pr.userId)
      finalProperties == reconcile(pr.localProperties, firebaseProperties,
                                   firebaseDeletedRecords)
  IN [finalProperties |-> finalProperties,
      changes |-> identifyLocalChanges(pr.localProperties, finalProperties,
                                       pr.localDeletedUuids)]

\* C17 (incremental and full pulls are equivalent): a pass about to make its
\* incremental pull would keep the same final list and push the same creates,
\* updates and deletes if it pulled everything instead.
C17_IncrementalEqualsFull ==
  \A p \in Passes :
    (pass[p].pc = "pullProperties" /\ pass[p].incremental)
      => PassOutcome(pass[p], TRUE) = PassOutcome(pass[p], FALSE)

\* Every record of `after` whose uuid is in `before` has the local id that the
\* record of that uuid has in `before`.
IdKept(before, after) ==
  \A i \in DOMAIN before, j \in DOMAIN after :
    before[i].uuid = after[j].uuid => after[j].id = before[i].id

\* C18 (localId is stable on a device): the step in which a pass completes or
\* a delivery of the live subscription is applied leaves every record that was
\* in the in-memory list, and every record that was in the persisted cache,
\* with the local id it had.
C18_LocalIdStable ==
  [][((\E p \in Passes : Completes(p)) \/ deliv.pc = "getDeleted") =>
       /\ IdKept(properties, properties')
       /\ IdKept(getAllProperties(storage, user), getAllProperties(storage', user))]_vars

\* A call of createProperty, updateProperty or deleteProperty in which a write
\* of the local cache (the record list or the pending-tombstone list) throws.
WriteFails ==
  \/ createPropertyFails
  \/ \E id \in Ids : updatePropertyFails(id)
  \/ \E id \in Ids : deletePropertyFails(id)
  \/ \E id \in Ids : deletePropertyTombstoneFails(id)

\* C19 (local-storage failure is surfaced and leaves state unchanged): a
\* create, update or delete whose write of the local cache fails throws to its
\* caller (its catch block has set error.value), leaves the in-memory list and
\* the pending-tombstone list of the owner as they were and starts no pass.
C19_StorageFailureSurfaced ==
  [][WriteFails =>
       /\ error' # NoError
       /\ properties' = properties
       /\ getDeletedPropertyUuids(deleted', user) = getDeletedPropertyUuids(deleted, user)
       /\ pass' = pass]_vars

\* C20 (merge idempotence): for a local snapshot with pairwise distinct,
\* present uuids, reconcile with an empty remote snapshot and no deletion
\* record returns the snapshot itself: the same records in the same order.
C20_MergeIdempotent ==
  (/\ fn.pc = "done"
   /\ fn.firebaseProps = <<>>
   /\ fn.deletedRecords = {}
   /\ UniqueUuids(fn.localProps)
   /\ NoUuid \notin UuidsOf(fn.localProps))
    => /\ fn.merged = fn.localProps
       /\ fn.final = fn.localProps

\* C20 witness: reconcile has run on two local records, the one with the
\* greater uuid first, with nothing pulled.
C20_Witness ==
  /\ fn.pc = "done"
  /\ fn.firebaseProps = <<>>
  /\ fn.deletedRecords = {}
  /\ Len(fn.localProps) = 2
  /\ fn.localProps[1].uuid > fn.localProps[2].uuid
  /\ fn.final = fn.localProps

\* C21 (no tombstone is dropped unpushed): every uuid that the completing
\* step of a pass removes from the pending-tombstone list of the signed-in
\* owner is in the delete set that pass pushed.
C21_NoTombstoneDropped ==
  [][\A p \in Passes : Completes(p) =>
       \A uuid \in Range(getDeletedPropertyUuids(deleted, user)) :
         uuid \notin Range(getDeletedPropertyUuids(deleted', user))
           => uuid \in Range(pass[p].deletedLocal)]_vars

\* C22 (delete queues the tombstone first): wherever deleteProperty is cut
\* short after it has removed the record from the persisted cache, the uuid of
\* the record is in the persisted pending-tombstone list of its owner.
C22_TombstoneQueuedFirst ==
  [][\A id \in Ids, steps \in DeleteSteps :
       deletePropertyCrashes(id, steps) =>
         properties[IndexOfId(properties, id)].uuid
           \in Range(getDeletedPropertyUuids(deleted', user))]_vars

\* The documents of a user with a uuid.
DocsOf(rem, userId, uuid) ==
  {i \in DOMAIN rem : rem[i].userId = userId /\ rem[i].uuid = uuid}

\* C23 (pending tombstones are always pushed as deletes): every uuid in the
\* pending-tombstone list a pass read at its start is in the delete set the
\* pass computes; a pass that read a non-empty list completes only by its
\* batch delete; and the batch delete removes a document and records a
\* deletion for each of those uuids that has a document.
C23_TombstonesPushed ==
  [][\A p \in Passes :
       LET pending == Range(pass[p].localDeletedUuids)
       IN /\ pullDeleted(p) => pending \subseteq Range(pass'[p].deletedLocal)
          /\ Completes(p) /\ pending # {} => batchDelete(p)
          /\ batchDelete(p) =>
               \A uuid \in pending :
                 HasDoc(remote, pass[p].userId, uuid) =>
                   /\ \E d \in remoteDeleted' : d.uuid = uuid /\ d.userId = pass[p].userId
                   /\ Cardinality(DocsOf(remote', pass[p].userId, uuid))
                        < Cardinality(DocsOf(remote, pass[p].userId, uuid))]_vars

\* A pass is about to send its batch delete for a pending tombstone whose
\* uuid the merged snapshot still holds and the remote store has a document of.
C23_Witness ==
  \E p \in Passes :
    /\ pass[p].pc = "batchDelete"
    /\ \E uuid \in Range(pass[p].localDeletedUuids) :
         /\ uuid \in Range(pass[p].deletedLocal)
         /\ MapHas(pass[p].finalProperties, uuid)
         /\ HasDoc(remote, pass[p].userId, uuid)

\* C24 (at most one live subscription): the device never has more than one
\* live listener; a pass that completes while one is live leaves exactly that
\* one, and a pass that completes signed in leaves exactly one; cleanup
\* (logout) leaves none; and only the completion of a pass adds one.
C24_OneSubscription ==
  [][/\ listeners' <= 1
     /\ \A p \in Passes :
          Completes(p) => /\ listeners = 1 => listeners' = 1
                          /\ user # NoUser => listeners' = 1
     /\ (cleanup \/ logout) => listeners' = 0
     /\ listeners' > listeners => \E p \in Passes : Completes(p)]_vars

\* Both activations of the pass have completed and one listener is live.
C24_Witness ==
  /\ listeners = 1
  /\ \A p \in Passes : pass[p].outcome = "done"

\* A list holds a record with the uuid and the field values of r.
HoldsValues(list, r) ==
  \E i \in DOMAIN list :
    /\ list[i].uuid = r.uuid
    /\ list[i].zone = r.zone
    /\ list[i].updatedAt = r.updatedAt

\* C25 (no local mutation is lost to an in-flight pass): a record this device
\* created or updated after a pass or a delivery took its snapshot is, with
\* its field values, in the in-memory list and in the persisted cache after
\* that pass or delivery writes its final snapshot.
C25_MutationSurvivesPass ==
  [][\A r \in Range(properties) :
       r.zone \in Zones =>
         /\ \A p \in Passes :
              Completes(p) /\ ~HoldsValues(pass[p].localProperties, r) =>
                /\ HoldsValues(properties', r)
                /\ HoldsValues(getAllProperties(storage', user'), r)
         /\ deliveryApplied /\ ~HoldsValues(deliv.localProperties, r) =>
              /\ HoldsValues(properties', r)
              /\ HoldsValues(getAllProperties(storage', user'), r)]_vars

\* C26 (remote syncIds stay unique): when no pass is in flight, the remote
\* store holds at most one document per user and uuid.
C26_RemoteUuidsUnique ==
  (\A p \in Passes : ~InFlight(p)) =>
    \A i, j \in DOMAIN remote :
      remote[i].userId = remote[j].userId /\ remote[i].uuid = remote[j].uuid => i = j

\* C27 (a created record reaches the other devices): when a pass completes,
\* the remote store holds a document for every record of its local snapshot
\* that is in the final snapshot it writes, so that the next pull of another
\* device returns it.
C27_CreatedReachesRemote ==
  [][\A p \in Passes :
       Completes(p) =>
         \A r \in Range(pass[p].localProperties) :
           r \in Range(properties') /\ r.uuid # NoUuid
             => HasDoc(remote', pass[p].userId, r.uuid)]_vars

\* C28 (incremental windows leave no gap): when a pass completes, every
\* document of its user that the final snapshot has no copy of (none of that
\* uuid as new as the document, no deletion of that uuid) and every tombstone
\* of a uuid the final snapshot still holds was written after the pass
\* pulled, and is returned by an incremental pull from the
\* last-successful-sync time the pass records.
C28_WindowLeavesNoGap ==
  [][\A p \in Passes :
       Completes(p) =>
         /\ \A i \in DOMAIN remote' :
              /\ remote'[i].userId = pass[p].userId
              /\ ~\E k \in DOMAIN properties' :
                    /\ properties'[k].uuid = remote'[i].uuid
                    /\ properties'[k].updatedAt >= remote'[i].updatedAt
              /\ remote'[i].uuid \notin Range(pass[p].deletedLocal)
              /\ ~\E d \in remoteDeleted' : d.uuid = remote'[i].uuid
              => HoldsValues(getPropertiesModifiedSince(remote', pass[p].userId,
                                                         lastSyncTime'), remote'[i])
         /\ \A d \in remoteDeleted' :
              /\ d.userId = pass[p].userId
              /\ MapHas(properties', d.uuid)
              /\ d.uuid \notin Range(pass[p].deletedLocal)
              => d \in getDeletedPropertiesModifiedSince(remoteDeleted', pass[p].userId,
                                                         lastSyncTime')]_vars

\* C29 (the sync window belongs to one owner): the pass that a sign-in starts
\* is a full pull, whoever the last-successful-sync time was recorded for.
C29_WindowOfOneOwner ==
  [][\A p \in Passes : StartsAtLogin(p) => ~pass'[p].incremental]_vars

\* C30 (local syncIds stay unique): the persisted cache of an owner never
\* holds two records with the same uuid.
C30_LocalUuidsUnique ==
  \A o \in DOMAIN storage :
    \A i, j \in DOMAIN storage[o].items :
      /\ storage[o].items[i].uuid = storage[o].items[j].uuid
      /\ storage[o].items[i].uuid # NoUuid
      => i = j

=============================================================================
